---- MODULE Spec2Model ----
(***************************************************************************)
(* Domain lifecycle reconciler of custom-domain: the pending queue         *)
(* (app/domain_queue.py), the proxy configurator (app/caddy/caddy_config.py*)
(* and app/caddy/caddy.py), the client handlers (app/api.py) and the two   *)
(* background loops (app/main.py).                                         *)
(*                                                                         *)
(* Everything runs on one asyncio event loop: a handler or a loop          *)
(* iteration runs without interruption until it awaits.  add_domain,       *)
(* remove_domains and the bodies of both loops never await, so each is one *)
(* action; verify_domain awaits only at its token-file I/O, so it is split *)
(* there.                                                                  *)
(***************************************************************************)
EXTENDS Integers, Sequences, FiniteSets, TLC

VARIABLES
    live,        \* the control plane's running configuration (Caddy)
    config,      \* CaddyAPIConfigurator.config, the cached document
    snapshot,    \* the config snapshot file (domains/caddy.json)
    queue,       \* DomainQueue._pending, an insertion-ordered dict
    pendingFile, \* the queue document on disk (domains/pending.json)
    tokens,      \* token files domains/texts/<domain>.txt: domain -> content
    now,         \* time.time()
    serverIp,    \* Caddy.server_ip is known (TRUE) or None (FALSE)
    calls,       \* verify_domain calls in flight, by slot
    ev,          \* what the last handler or loop iteration did and returned
    loops,       \* the two background tasks of main.py: running or ended
    hist         \* history: the state and the inputs an overlap started from

vars == <<live, config, snapshot, queue, pendingFile, tokens, now, serverIp,
          calls, ev, loops, hist>>

----------------------------------------------------------------------------
(* Bounds and constants *)

MaxTime == 1
MaxTokens == 2

\* MAX_PENDING_SECONDS is read from the environment; the model runs with 0:
\* an entry expires once the clock has moved past its added_at.
MAX_PENDING_SECONDS == 0

Domains == {"a.example", "b.example"}
\* a name validators.domain() refuses
BadName == "not a domain"
\* the names the clients of the running service ask for
Tenants == {"a.example"}

DEFAULT_SAAS_UPSTREAM == "example.com:443"
OtherUpstream == "u1:443"
Upstreams == {DEFAULT_SAAS_UPSTREAM, OtherUpstream}
\* the optional upstream query argument: None or a value
NoneVal == "None"
UpstreamArgs == {NoneVal, OtherUpstream}

\* the slots of the verify_domain calls in flight
CallIds == {1}

\* the strings generate_random_string() may yield; 0 is the empty string
Tokens == 1..MaxTokens

\* outcomes of one HTTP request to the control plane
Ok2xx == "2xx"
HttpError == "HTTPError"        \* non-2xx: raise_for_status() raises HTTPError
ConnError == "ConnectionError"  \* requests raises something that is no HTTPError
HttpOutcomes == {Ok2xx, HttpError, ConnError}
\* the answers to the GET of list_domains(): without a 2xx the caller raises
\* at the same place, whether list_domains() returned None or raised itself
ListOutcomes == {Ok2xx, HttpError}

\* results of calls: Python's True / False / None, or the exception raised
RTrue == "True"
RFalse == "False"
RNone == "None"
ROk == "OK"
Http400 == "HTTPException400"
Http404 == "HTTPException404"
Http500 == "HTTPException500"
DomainAlreadyExists == "DomainAlreadyExists"
TypeError == "TypeError"
FileNotFound == "FileNotFoundError"
Exceptions == {Http400, Http404, Http500, DomainAlreadyExists, TypeError,
               FileNotFound, ConnError}

\* a well-formed name a client spells in capitals, and str.lower() of a name
UpperName == "A.EXAMPLE"
lower(d) == IF d = UpperName THEN "a.example" ELSE d

\* validators.domain() takes letters of either case
validators_domain(d) == d \in Domains \cup {UpperName}

----------------------------------------------------------------------------
(* saas_template: the config document as the routes it holds, domain ->   *)
(* upstream.                                                               *)

EmptyDoc == [d \in {} |-> DEFAULT_SAAS_UPSTREAM]

https_template == EmptyDoc

tmpl_list_domains(doc) == DOMAIN doc

\* "already routed elsewhere": present under a different upstream
tmpl_add_raises(d, u, doc) == d \in DOMAIN doc /\ doc[d] # u

add_https_domain(d, u, doc) ==
    [x \in (DOMAIN doc) \cup {d} |-> IF x = d THEN u ELSE doc[x]]

tmpl_delete_raises(d, doc) == d \notin DOMAIN doc

delete_https_domain(d, doc) == [x \in (DOMAIN doc) \ {d} |-> doc[x]]

----------------------------------------------------------------------------
(* CaddyAPIConfigurator.  c is [live, config, snapshot]; every operation    *)
(* returns the state it leaves and what it returns or raises.              *)

CP(l, cf, s) == [live |-> l, config |-> cf, snapshot |-> s]

\* a load that adopts the document whatever the control plane answers
load_new_config_adopting(c, doc, o) ==
    CASE o = Ok2xx -> [c |-> [c EXCEPT !.live = doc, !.config = doc], ret |-> RTrue]
      [] o = HttpError -> [c |-> [c EXCEPT !.config = doc], ret |-> RFalse]
      [] OTHER -> [c |-> c, ret |-> ConnError]

load_new_config(c, doc, o) ==
    CASE o = Ok2xx -> [c |-> [c EXCEPT !.live = doc, !.config = doc], ret |-> RTrue]
      [] o = HttpError -> [c |-> c, ret |-> RFalse]
      [] OTHER -> [c |-> c, ret |-> ConnError]

\* GET /config/ then write the file; an HTTPError is logged and swallowed
save_config(c, o) ==
    CASE o = Ok2xx -> [c |-> [c EXCEPT !.snapshot = c.live], ret |-> RNone]
      [] o = HttpError -> [c |-> c, ret |-> RNone]
      [] OTHER -> [c |-> c, ret |-> ConnError]

\* GET /config/ ; an HTTPError is swallowed and None returned
list_domains(c, o) ==
    CASE o = Ok2xx -> [ok |-> TRUE, val |-> tmpl_list_domains(c.live), ret |-> RTrue]
      [] o = HttpError -> [ok |-> FALSE, val |-> {}, ret |-> TypeError]
      [] OTHER -> [ok |-> FALSE, val |-> {}, ret |-> ConnError]

\* one add_domain / delete_domain call as the record of the step keeps it:
\* first and second are the answers to its loads (first: none when the
\* template raised before any load; second: the load of the old document,
\* made only after a rejection)
Tx(kind, d, u, o1, o2, ret) ==
    LET loaded == ret \notin {DomainAlreadyExists, Http404} IN
    [kind |-> kind, dom |-> d, up |-> u,
     first |-> IF loaded THEN o1 ELSE RNone,
     second |-> IF loaded /\ o1 = HttpError THEN o2 ELSE RNone, ret |-> ret]

\* a transaction that edits self.config in place instead of a copy
transaction_in_place(c, raises, new_config, o1, o2, exc) ==
    IF raises THEN [c |-> c, ret |-> exc]
    ELSE LET r1 == load_new_config([c EXCEPT !.config = new_config], new_config, o1) IN
         IF r1.ret = RTrue THEN [c |-> r1.c, ret |-> RTrue]
         ELSE IF r1.ret = ConnError THEN [c |-> r1.c, ret |-> ConnError]
         ELSE LET r2 == load_new_config(r1.c, r1.c.config, o2) IN
              IF r2.ret = ConnError THEN [c |-> r2.c, ret |-> ConnError]
              ELSE [c |-> r2.c, ret |-> RFalse]

\* copy, modify, try to load, else load the copy again
transaction(c, raises, new_config, o1, o2, exc) ==
    IF raises THEN [c |-> c, ret |-> exc]
    ELSE LET r1 == load_new_config(c, new_config, o1) IN
         IF r1.ret = RTrue THEN [c |-> r1.c, ret |-> RTrue]
         ELSE IF r1.ret = ConnError THEN [c |-> r1.c, ret |-> ConnError]
         ELSE LET r2 == load_new_config(r1.c, c.config, o2) IN
              IF r2.ret = ConnError THEN [c |-> r2.c, ret |-> ConnError]
              ELSE [c |-> r2.c, ret |-> RFalse]

add_domain(c, d, u, o1, o2) ==
    transaction(c, tmpl_add_raises(d, u, c.config),
                add_https_domain(d, u, c.config), o1, o2, DomainAlreadyExists)

delete_domain(c, d, o1, o2) ==
    transaction(c, tmpl_delete_raises(d, c.config),
                delete_https_domain(d, c.config), o1, o2, Http404)

----------------------------------------------------------------------------
(* DomainQueue: _pending is a dict, kept here as the sequence of its        *)
(* entries in insertion order.                                             *)

Pending == "pending"
Failed == "failed"

Entry(d, u, t, s) == [domain |-> d, upstream |-> u, added_at |-> t, status |-> s]

QDomains(q) == {q[i].domain : i \in DOMAIN q}

QIndex(q, d) == CHOOSE i \in DOMAIN q : q[i].domain = d

QGet(q, d) == q[QIndex(q, d)]

\* an add that takes the new upstream and time for a domain already queued
add_overwriting(q, d, u, t) ==
    IF d \notin QDomains(q) THEN Append(q, Entry(d, u, t, Pending))
    ELSE [q EXCEPT ![QIndex(q, d)].upstream = u, ![QIndex(q, d)].added_at = t]

add(q, d, u, t) ==
    IF d \notin QDomains(q) THEN Append(q, Entry(d, u, t, Pending)) ELSE q

RECURSIVE Without(_, _)
Without(q, d) ==
    IF q = <<>> THEN <<>>
    ELSE IF Head(q).domain = d THEN Without(Tail(q), d)
    ELSE <<Head(q)>> \o Without(Tail(q), d)

remove(q, d) == IF d \in QDomains(q) THEN Without(q, d) ELSE q

get_status(q, d) == IF d \in QDomains(q) THEN QGet(q, d).status ELSE RNone

is_pending(q, d) == d \in QDomains(q) /\ QGet(q, d).status = Pending

is_failed(q, d) == d \in QDomains(q) /\ QGet(q, d).status = Failed

mark_failed(q, d) ==
    IF d \in QDomains(q) THEN [q EXCEPT ![QIndex(q, d)].status = Failed] ELSE q

\* a reset that keeps the old added_at
mark_pending_keeping_time(q, d, t) ==
    IF d \in QDomains(q) THEN [q EXCEPT ![QIndex(q, d)].status = Pending] ELSE q

mark_pending(q, d, t) ==
    IF d \in QDomains(q)
    THEN [q EXCEPT ![QIndex(q, d)].status = Pending, ![QIndex(q, d)].added_at = t]
    ELSE q

\* a get_pending_only that hands out every entry
get_pending_only_unfiltered(q) == q

RECURSIVE get_pending_only(_)
get_pending_only(q) ==
    IF q = <<>> THEN <<>>
    ELSE IF Head(q).status = Pending
         THEN <<Head(q)>> \o get_pending_only(Tail(q))
         ELSE get_pending_only(Tail(q))

\* a sweep that fails an entry as soon as its age reaches the limit
RECURSIVE cleanup_loop_at_limit(_, _, _, _)
cleanup_loop_at_limit(q, t, i, failed) ==
    IF i > Len(q) THEN [q |-> q, failed |-> failed]
    ELSE IF q[i].status # Pending THEN cleanup_loop_at_limit(q, t, i + 1, failed)
    ELSE IF t - q[i].added_at >= MAX_PENDING_SECONDS
         THEN cleanup_loop_at_limit([q EXCEPT ![i].status = Failed], t, i + 1,
                                    Append(failed, q[i].domain))
         ELSE cleanup_loop_at_limit(q, t, i + 1, failed)

\* one pass over the entries; returns the dict and the list `failed`
RECURSIVE cleanup_loop(_, _, _, _)
cleanup_loop(q, t, i, failed) ==
    IF i > Len(q) THEN [q |-> q, failed |-> failed]
    ELSE IF q[i].status # Pending THEN cleanup_loop(q, t, i + 1, failed)
    ELSE IF t - q[i].added_at > MAX_PENDING_SECONDS
         THEN cleanup_loop([q EXCEPT ![i].status = Failed], t, i + 1,
                           Append(failed, q[i].domain))
         ELSE cleanup_loop(q, t, i + 1, failed)

cleanup_expired(q, t) == cleanup_loop(q, t, 1, <<>>)

\* json.dump(self._pending): a JSON object whose members are, in the dict's
\* order, the domain and the object of its entry's fields
json_dump(q) ==
    [i \in DOMAIN q |->
        [key |-> q[i].domain,
         value |-> [upstream |-> q[i].upstream, added_at |-> q[i].added_at,
                    status |-> q[i].status]]]

\* json.load: the dict of the object's members, in their order
json_load(doc) ==
    [i \in DOMAIN doc |->
        Entry(doc[i].key, doc[i].value.upstream, doc[i].value.added_at,
              doc[i].value.status)]

\* _load at construction: the dict in the file; no file reads as the empty
\* dict, like a file that holds {}
queue_load(f) == json_load(f)

\* what a mutator leaves: the dict q and, when it called _save, the file
\* written from it
queue_save(q, f, wrote) == [q |-> q, f |-> IF wrote THEN json_dump(q) ELSE f]

add_and_save(q, f, d, u, t) ==
    queue_save(add(q, d, u, t), f, d \notin QDomains(q))

remove_and_save(q, f, d) == queue_save(remove(q, d), f, d \in QDomains(q))

mark_failed_and_save(q, f, d) ==
    queue_save(mark_failed(q, d), f, d \in QDomains(q))

mark_pending_and_save(q, f, d, t) ==
    queue_save(mark_pending(q, d, t), f, d \in QDomains(q))

\* a sweep that leaves the file as it was
cleanup_expired_unsaved(q, f, t) ==
    queue_save(cleanup_expired(q, t).q, f, FALSE)

cleanup_expired_and_save(q, f, t) ==
    queue_save(cleanup_expired(q, t).q, f, cleanup_expired(q, t).failed # <<>>)

----------------------------------------------------------------------------
(* utils: the DNS checks.  dns is what the resolvers answer while the step *)
(* runs: for each domain, whether its A records include the server IP and  *)
(* whether its TXT records include the token the domain was handed.  A     *)
(* lookup that fails answers FALSE.  No customer publishes an empty TXT    *)
(* value, so an empty expected value never matches.                        *)

DnsAnswers == [a : BOOLEAN, txt : BOOLEAN]

check_a_record(d, dns) == dns[d].a

check_txt_record(d, token, dns) == token # 0 /\ dns[d].txt

----------------------------------------------------------------------------
(* What one step records in ev: the operation, its argument, what it       *)
(* returned or raised, and the calls it made.  queue_status is the status  *)
(* verify_domain found on entry (its first step) and the one its response  *)
(* carries (its last step).                                                *)

EvBase ==
    [op |-> "init", dom |-> NoneVal, ret |-> RNone, txs |-> <<>>,
     failed |-> <<>>, removed |-> <<>>, promoted |-> <<>>, checked |-> <<>>,
     queue_status |-> RNone, expected |-> 0, call |-> 0, doc |-> EmptyDoc,
     up |-> NoneVal]

Ev(op, d, ret) == [EvBase EXCEPT !.op = op, !.dom = d, !.ret = ret]

\* the outcomes of the requests one promotion or removal makes: the load of
\* the new document, the load of the old one after a rejection, the GET of
\* save_config after an acceptance
TxScenarios ==
    {[load |-> Ok2xx, rollback |-> Ok2xx, save |-> o] : o \in HttpOutcomes}
    \cup {[load |-> HttpError, rollback |-> o, save |-> Ok2xx] : o \in HttpOutcomes}
    \cup {[load |-> ConnError, rollback |-> Ok2xx, save |-> Ok2xx]}

\* a delete_domain alone (the audit saves once, after its loop)
DelScenarios == {s \in TxScenarios : s.save = Ok2xx}

IdleCall == [pc |-> "idle", dom |-> NoneVal, up |-> NoneVal, av |-> FALSE,
             tok |-> 0, orph |-> FALSE]

Resolve(uarg) == IF uarg = NoneVal THEN DEFAULT_SAAS_UPSTREAM ELSE uarg

NoHist == [started |-> FALSE, ticked |-> FALSE, done |-> FALSE]

\* a background task is in its `while True` loop, or has ended
Running == "running"
Ended == "ended"
\* lifespan() creates both tasks at startup
LoopsStarted == [pending |-> Running, audit |-> Running]

----------------------------------------------------------------------------
(* Caddy (app/caddy/caddy.py) *)

\* a promote_domain that does not look at what add_domain returned
promote_domain_unchecked(c, d, u, s) ==
    LET r == add_domain(c, d, u, s.load, s.rollback)
        tx == Tx("add", d, u, s.load, s.rollback, r.ret)
    IN  IF r.ret \notin {RTrue, RFalse}
        THEN [c |-> r.c, ret |-> r.ret, txs |-> <<tx>>]
        ELSE LET sv == save_config(r.c, s.save) IN
             IF sv.ret = ConnError
             THEN [c |-> sv.c, ret |-> ConnError, txs |-> <<tx>>]
             ELSE [c |-> sv.c, ret |-> RTrue, txs |-> <<tx>>]

\* returns [c, ret, txs]: ret is True, False or the exception that escapes
promote_domain(c, d, u, s) ==
    LET r == add_domain(c, d, u, s.load, s.rollback)
        tx == Tx("add", d, u, s.load, s.rollback, r.ret)
    IN  IF r.ret = RFalse THEN [c |-> r.c, ret |-> RFalse, txs |-> <<tx>>]
        ELSE IF r.ret # RTrue THEN [c |-> r.c, ret |-> r.ret, txs |-> <<tx>>]
        ELSE LET sv == save_config(r.c, s.save) IN
             IF sv.ret = ConnError
             THEN [c |-> sv.c, ret |-> ConnError, txs |-> <<tx>>]
             ELSE [c |-> sv.c, ret |-> RTrue, txs |-> <<tx>>]

\* returns [c, ret, txs]: ret is None or the exception raised
remove_custom_domain(c, d, s) ==
    IF ~validators_domain(d) THEN [c |-> c, ret |-> Http400, txs |-> <<>>]
    ELSE LET r == delete_domain(c, d, s.load, s.rollback)
             tx == Tx("delete", d, NoneVal, s.load, s.rollback, r.ret)
         IN  IF r.ret = RFalse THEN [c |-> r.c, ret |-> Http400, txs |-> <<tx>>]
             ELSE IF r.ret # RTrue THEN [c |-> r.c, ret |-> r.ret, txs |-> <<tx>>]
             ELSE LET sv == save_config(r.c, s.save) IN
                  [c |-> sv.c, ret |-> sv.ret, txs |-> <<tx>>]

\* an add_custom_domain that takes any name
add_custom_domain_unvalidated(c, q, d, uarg, o, t) ==
    LET l == list_domains(c, o) IN
    IF ~l.ok THEN [q |-> q, ret |-> l.ret]
    ELSE IF d \in l.val THEN [q |-> q, ret |-> RNone]
    ELSE [q |-> add(q, d, Resolve(uarg), t), ret |-> RNone]

\* returns [q, ret]: validate, skip a live domain, else enqueue
add_custom_domain(c, q, d, uarg, o, t) ==
    IF ~validators_domain(d) THEN [q |-> q, ret |-> Http400]
    ELSE LET l == list_domains(c, o) IN
         IF ~l.ok THEN [q |-> q, ret |-> l.ret]
         ELSE IF d \in l.val THEN [q |-> q, ret |-> RNone]
         ELSE [q |-> add(q, d, Resolve(uarg), t), ret |-> RNone]

\* the domains of a set in the order the audit visits them
RECURSIVE SetToSeq(_)
SetToSeq(S) ==
    IF S = {} THEN <<>>
    ELSE LET x == CHOOSE y \in S : TRUE IN <<x>> \o SetToSeq(S \ {x})

\* the audit's loop over list_domains(): st is [c, removed, txs, checked]
RECURSIVE audit_loop(_, _, _, _, _)
audit_loop(st, doms, i, dns, scen) ==
    IF i > Len(doms) THEN st
    ELSE LET d == doms[i]
             seen == Append(st.checked, [domain |-> d, a_ok |-> dns[d].a,
                                         txt_ok |-> FALSE])
         IN
         IF check_a_record(d, dns)
         THEN audit_loop([st EXCEPT !.checked = seen], doms, i + 1, dns, scen)
         ELSE LET s == scen[d]
                  r == delete_domain(st.c, d, s.load, s.rollback)
                  tx == Tx("delete", d, NoneVal, s.load, s.rollback, r.ret)
                  raised == r.ret \in Exceptions
              IN  audit_loop([c |-> r.c,
                              removed |-> IF raised THEN st.removed
                                          ELSE Append(st.removed, d),
                              txs |-> Append(st.txs, tx), checked |-> seen],
                             doms, i + 1, dns, scen)

\* returns [c, ret, removed, txs, checked]; ret is the exception that
\* escapes, if any
audit_domains(c, oList, dns, scen, oSave) ==
    LET none == [c |-> c, ret |-> RNone, removed |-> <<>>, txs |-> <<>>,
                 checked |-> <<>>]
    IN
    IF ~serverIp THEN none
    ELSE LET l == list_domains(c, oList) IN
         IF ~l.ok THEN [none EXCEPT !.ret = l.ret]
         ELSE LET st == audit_loop([c |-> c, removed |-> <<>>, txs |-> <<>>,
                                    checked |-> <<>>],
                                   SetToSeq(l.val), 1, dns, scen)
                  sv == IF st.removed = <<>> THEN [c |-> st.c, ret |-> RNone]
                        ELSE save_config(st.c, oSave)
              IN  [c |-> sv.c, ret |-> sv.ret, removed |-> st.removed,
                   txs |-> st.txs, checked |-> st.checked]

----------------------------------------------------------------------------
(* app/main.py: one iteration of _pending_verification_loop                *)

\* the TXT check of the loop: the token file must exist and be non-empty
tick_txt_ok(d, tk, dns) ==
    d \in DOMAIN tk /\ tk[d] # 0 /\ check_txt_record(d, tk[d], dns)

\* the loop over the snapshot get_pending_only() returned.
\* st is [c, q, ret, txs, promoted, checked]; an exception ends the loop.
RECURSIVE tick_loop(_, _, _, _, _, _)
tick_loop(st, pend, i, tk, dns, scen) ==
    IF i > Len(pend) THEN st
    ELSE LET d == pend[i].domain
             upstream == pend[i].upstream
             a_ok == check_a_record(d, dns)
             txt_ok == tick_txt_ok(d, tk, dns)
             seen == [st EXCEPT !.checked =
                         Append(st.checked, [domain |-> d, a_ok |-> a_ok,
                                             txt_ok |-> txt_ok])]
         IN  IF ~(a_ok /\ txt_ok)
             THEN tick_loop(seen, pend, i + 1, tk, dns, scen)
             ELSE LET r == promote_domain(st.c, d, upstream, scen[d])
                      after == [seen EXCEPT !.c = r.c, !.txs = st.txs \o r.txs]
                  IN  IF r.ret = RTrue
                      THEN tick_loop([after EXCEPT !.q = remove(st.q, d),
                                                   !.promoted = Append(st.promoted, d)],
                                     pend, i + 1, tk, dns, scen)
                      ELSE IF r.ret = RFalse
                      THEN tick_loop(after, pend, i + 1, tk, dns, scen)
                      ELSE [after EXCEPT !.ret = r.ret]

\* the whole iteration after the sleep: returns [c, q, ret, failed, txs,
\* promoted, checked]
pending_verification(c, q, tk, t, dns, scen) ==
    LET swept == cleanup_expired(q, t)
        st0 == [c |-> c, q |-> swept.q, ret |-> RNone, failed |-> swept.failed,
                txs |-> <<>>, promoted |-> <<>>, checked |-> <<>>]
    IN  IF ~serverIp THEN st0
        ELSE tick_loop(st0, get_pending_only(swept.q), 1, tk, dns, scen)

----------------------------------------------------------------------------
(* The state after construction: the template is loaded and saved, the     *)
(* queue file and the token directory are empty.                           *)

Init ==
    /\ live = https_template
    /\ config = https_template
    /\ snapshot = https_template
    /\ queue = <<>>
    /\ pendingFile = <<>>
    /\ tokens = [d \in {} |-> 0]
    /\ now = 0
    /\ serverIp \in BOOLEAN
    /\ calls = [i \in CallIds |-> IdleCall]
    /\ ev = EvBase
    /\ loops = LoopsStarted
    /\ hist = NoHist

\* what a step leaves: configurator state, queue, files, calls and the record
Effect(c, q, tk, cl, e) ==
    /\ live' = c.live
    /\ config' = c.config
    /\ snapshot' = c.snapshot
    /\ queue' = q
    /\ pendingFile' = IF q # queue THEN json_dump(q) ELSE pendingFile
    /\ tokens' = tk
    /\ calls' = cl
    /\ ev' = e
    /\ UNCHANGED <<now, serverIp>>

\* a handler's step: the loops and the history stay as they are
Commit(c, q, tk, cl, e) ==
    /\ Effect(c, q, tk, cl, e)
    /\ UNCHANGED <<loops, hist>>

\* a loop iteration's step: l is the state of the loops after it
CommitLoop(c, q, tk, cl, e, l) ==
    /\ Effect(c, q, tk, cl, e)
    /\ loops' = l
    /\ UNCHANGED hist

Cur == CP(live, config, snapshot)

\* the answers an operation does not wait for
DefaultScen == [load |-> Ok2xx, rollback |-> Ok2xx, save |-> Ok2xx]

----------------------------------------------------------------------------
(* Environment *)

\* time passes
Advance ==
    /\ now < MaxTime
    /\ now' = now + 1
    /\ ev' = Ev("clock", NoneVal, RNone)
    /\ UNCHANGED <<live, config, snapshot, queue, pendingFile, tokens, serverIp,
                   calls, loops, hist>>

----------------------------------------------------------------------------
(* app/api.py: POST /domains and DELETE /domains                           *)

RequestDomain(N) ==
    \E d \in N, uarg \in UpstreamArgs :
    \E o \in IF validators_domain(d) THEN ListOutcomes ELSE {Ok2xx} :
        LET r == add_custom_domain(Cur, queue, d, uarg, o, now) IN
        Commit(Cur, r.q, tokens, calls,
               Ev("request", d, IF r.ret = RNone THEN ROk ELSE r.ret))

\* os.remove of a token file: a verify call that holds the file open for
\* writing keeps writing to the unlinked file
Unlink(cl, d) ==
    [i \in CallIds |->
        IF cl[i].pc = "write" /\ cl[i].dom = d THEN [cl[i] EXCEPT !.orph = TRUE]
        ELSE cl[i]]

silent_remove_file(tk, d) == [x \in (DOMAIN tk) \ {d} |-> tk[x]]

\* a remove_domains that leaves the token file where it is
remove_domains_keeping_token(c, q, tk, cl, d, oList, s) ==
    LET q1 == remove(q, d)
        l == list_domains(c, oList)
        r == IF l.ok /\ d \in l.val THEN remove_custom_domain(c, d, s)
             ELSE [c |-> c, ret |-> RNone, txs |-> <<>>]
    IN  IF ~l.ok
        THEN [c |-> c, q |-> q1, tk |-> tk, cl |-> cl, ret |-> l.ret, txs |-> <<>>]
        ELSE [c |-> r.c, q |-> q1, tk |-> tk, cl |-> cl,
              ret |-> IF r.ret # RNone THEN r.ret ELSE ROk, txs |-> r.txs]

\* remove_domains: returns [c, q, tk, cl, ret, txs]
remove_domains(c, q, tk, cl, d, oList, s) ==
    LET q1 == remove(q, d)
        l == list_domains(c, oList)
        r == IF l.ok /\ d \in l.val THEN remove_custom_domain(c, d, s)
             ELSE [c |-> c, ret |-> RNone, txs |-> <<>>]
    IN  IF ~l.ok
        THEN [c |-> c, q |-> q1, tk |-> tk, cl |-> cl, ret |-> l.ret, txs |-> <<>>]
        ELSE IF r.ret # RNone
        THEN [c |-> r.c, q |-> q1, tk |-> tk, cl |-> cl, ret |-> r.ret,
              txs |-> r.txs]
        ELSE [c |-> r.c, q |-> q1, tk |-> silent_remove_file(tk, d),
              cl |-> Unlink(cl, d), ret |-> ROk, txs |-> r.txs]

RemoveDomains(N) ==
    \E d \in N, oList \in ListOutcomes :
    \E s \in IF oList = Ok2xx /\ d \in tmpl_list_domains(live)
             THEN TxScenarios ELSE {DefaultScen} :
        LET r == remove_domains(Cur, queue, tokens, calls, d, oList, s) IN
        Commit(r.c, r.q, r.tk, r.cl,
               [Ev("remove", d, r.ret) EXCEPT !.txs = r.txs])

----------------------------------------------------------------------------
(* app/main.py: the two loops, one iteration each                          *)

\* the pending domains the iteration will look up
TickLookups(q, t) ==
    IF serverIp THEN {e.domain : e \in
                        {get_pending_only(cleanup_expired(q, t).q)[i] :
                            i \in DOMAIN get_pending_only(cleanup_expired(q, t).q)}}
    ELSE {}

\* a loop whose iteration lets its exception escape: the task ends with it
iteration_unguarded(ret) == IF ret \in Exceptions THEN Ended ELSE Running

\* `while True: sleep; try: <iteration> except Exception: log`: whatever the
\* iteration raised is logged, and the loop goes back to its sleep
iteration_guarded(ret) == Running

PendingVerificationTick ==
    /\ loops.pending = Running
    /\ \E dns \in [TickLookups(queue, now) -> DnsAnswers] :
       \E scen \in [{d \in DOMAIN dns : dns[d].a /\ tick_txt_ok(d, tokens, dns)}
                       -> TxScenarios] :
        LET st == pending_verification(Cur, queue, tokens, now, dns, scen) IN
        CommitLoop(st.c, st.q, tokens, calls,
                   [Ev("tick", NoneVal, st.ret) EXCEPT
                       !.failed = st.failed, !.txs = st.txs,
                       !.promoted = st.promoted, !.checked = st.checked],
                   [loops EXCEPT !.pending = iteration_guarded(st.ret)])

DomainAuditTick ==
    /\ loops.audit = Running
    /\ \E oList \in IF serverIp THEN ListOutcomes ELSE {Ok2xx} :
       \E dns \in [IF serverIp /\ oList = Ok2xx THEN tmpl_list_domains(live) ELSE {}
                      -> {x \in DnsAnswers : ~x.txt}] :
       \E scen \in [{d \in DOMAIN dns : ~dns[d].a} -> DelScenarios] :
       \E oSave \in IF \E d \in DOMAIN scen : scen[d].load # ConnError
                    THEN HttpOutcomes ELSE {Ok2xx} :
        LET r == audit_domains(Cur, oList, dns, scen, oSave) IN
        CommitLoop(r.c, queue, tokens, calls,
                   [Ev("audit", NoneVal, r.ret) EXCEPT
                       !.removed = r.removed, !.txs = r.txs, !.checked = r.checked],
                   [loops EXCEPT !.audit = iteration_guarded(r.ret)])

----------------------------------------------------------------------------
(* app/api.py: GET /domains/verify/{domain}, in the pieces its awaits cut  *)

\* a verify_domain that goes on without the server IP
verify_start_without_ip(c, q, tk, t, d, uarg, o1, o2, fresh) ==
    LET l == list_domains(c, o1)
        already_verified == d \in l.val
        enq == IF ~already_verified /\ get_status(q, d) = RNone
               THEN add_custom_domain(c, q, d, uarg, o2, t)
               ELSE [q |-> q, ret |-> RNone]
        q2 == IF is_failed(enq.q, d) THEN mark_pending(enq.q, d, t) ELSE enq.q
        exists == d \in DOMAIN tk
        call == [pc |-> IF exists THEN "read" ELSE "open_w", dom |-> d,
                 up |-> Resolve(uarg), av |-> already_verified,
                 tok |-> IF exists THEN 0 ELSE fresh, orph |-> FALSE]
        stop == [q |-> q, ret |-> Http500, call |-> IdleCall]
    IN  IF ~l.ok THEN [stop EXCEPT !.ret = l.ret]
        ELSE IF enq.ret # RNone THEN [stop EXCEPT !.ret = enq.ret]
        ELSE [q |-> q2, ret |-> "awaiting", call |-> call]

\* up to the first await: the membership reads, the enqueue, the reset of a
\* failed entry, os.path.exists and (no file) generate_random_string, which
\* yields fresh.  Returns [q, ret, call]; ret "awaiting" when the call goes on.
verify_start(c, q, tk, t, d, uarg, o1, o2, fresh) ==
    LET l == list_domains(c, o1)
        already_verified == d \in l.val
        enq == IF ~already_verified /\ get_status(q, d) = RNone
               THEN add_custom_domain(c, q, d, uarg, o2, t)
               ELSE [q |-> q, ret |-> RNone]
        q2 == IF is_failed(enq.q, d) THEN mark_pending(enq.q, d, t) ELSE enq.q
        exists == d \in DOMAIN tk
        call == [pc |-> IF exists THEN "read" ELSE "open_w", dom |-> d,
                 up |-> Resolve(uarg), av |-> already_verified,
                 tok |-> IF exists THEN 0 ELSE fresh, orph |-> FALSE]
        stop == [q |-> q, ret |-> Http500, call |-> IdleCall]
    IN  IF ~serverIp THEN stop
        ELSE IF ~l.ok THEN [stop EXCEPT !.ret = l.ret]
        ELSE IF enq.ret # RNone THEN [stop EXCEPT !.ret = enq.ret]
        ELSE [q |-> q2, ret |-> "awaiting", call |-> call]

VerifyStart(N, i) ==
    \E d \in N, uarg \in UpstreamArgs :
    \E o1 \in IF serverIp THEN ListOutcomes ELSE {Ok2xx} :
    \E o2 \in IF serverIp /\ o1 = Ok2xx /\ validators_domain(d)
                 /\ d \notin tmpl_list_domains(live) /\ get_status(queue, d) = RNone
              THEN ListOutcomes ELSE {Ok2xx} :
    \E fresh \in IF serverIp /\ o1 = Ok2xx /\ o2 = Ok2xx /\ validators_domain(d)
                    /\ d \notin DOMAIN tokens
                 THEN Tokens ELSE {0} :
        /\ calls[i].pc = "idle"
        /\ LET r == verify_start(Cur, queue, tokens, now, d, uarg, o1, o2, fresh) IN
           Commit(Cur, r.q, tokens, [calls EXCEPT ![i] = r.call],
                  [Ev("verify_start", d, r.ret) EXCEPT
                      !.call = i, !.queue_status = get_status(queue, d)])

\* aiofiles: open for reading and read (the content as it is then)
VerifyRead(i) ==
    /\ calls[i].pc = "read"
    /\ LET d == calls[i].dom IN
       IF d \notin DOMAIN tokens
       THEN Commit(Cur, queue, tokens, [calls EXCEPT ![i] = IdleCall],
                   [Ev("verify_io", d, FileNotFound) EXCEPT !.call = i])
       ELSE Commit(Cur, queue, tokens,
                   [calls EXCEPT ![i].pc = "check", ![i].tok = tokens[d]],
                   [Ev("verify_io", d, "awaiting") EXCEPT !.call = i])

\* aiofiles: open for writing creates the file, or empties it
VerifyOpenWrite(i) ==
    /\ calls[i].pc = "open_w"
    /\ LET d == calls[i].dom IN
       Commit(Cur, queue, [x \in (DOMAIN tokens) \cup {d} |->
                              IF x = d THEN 0 ELSE tokens[x]], [calls EXCEPT ![i].pc = "write"],
              [Ev("verify_io", d, "awaiting") EXCEPT !.call = i])

\* aiofiles: the token reaches the file when it is written and closed
VerifyWrite(i) ==
    /\ calls[i].pc = "write"
    /\ LET d == calls[i].dom IN
       Commit(Cur, queue,
              IF calls[i].orph THEN tokens ELSE [tokens EXCEPT ![d] = calls[i].tok], [calls EXCEPT ![i].pc = "check"],
              [Ev("verify_io", d, "awaiting") EXCEPT !.call = i])

\* a verify_domain that promotes as soon as the A record passes
verify_finish_on_a_record(c, q, call, dns, s, o3) ==
    LET d == call.dom
        txt_token == call.tok
        a_ok == check_a_record(d, dns)
        txt_ok == check_txt_record(d, txt_token, dns)
        try == a_ok /\ ~call.av /\ is_pending(q, d)
        r == IF try THEN promote_domain(c, d, call.up, s)
             ELSE [c |-> c, ret |-> RFalse, txs |-> <<>>]
        q1 == IF r.ret = RTrue THEN remove(q, d) ELSE q
        l == list_domains(r.c, o3)
        e == [Ev("verify", d, ROk) EXCEPT
                 !.txs = r.txs, !.expected = txt_token,
                 !.checked = <<[domain |-> d, a_ok |-> a_ok, txt_ok |-> txt_ok]>>,
                 !.promoted = IF r.ret = RTrue THEN <<d>> ELSE <<>>]
    IN  [c |-> r.c, q |-> q1,
         e |-> IF r.ret \in Exceptions THEN [e EXCEPT !.ret = r.ret]
               ELSE IF ~l.ok THEN [e EXCEPT !.ret = l.ret]
               ELSE [e EXCEPT !.queue_status =
                        IF d \in l.val THEN "verified" ELSE get_status(q1, d)]]

\* from the DNS checks to the response: returns [c, q, e]
verify_finish(c, q, call, dns, s, o3) ==
    LET d == call.dom
        txt_token == call.tok
        a_ok == check_a_record(d, dns)
        txt_ok == check_txt_record(d, txt_token, dns)
        try == a_ok /\ txt_ok /\ ~call.av /\ is_pending(q, d)
        r == IF try THEN promote_domain(c, d, call.up, s)
             ELSE [c |-> c, ret |-> RFalse, txs |-> <<>>]
        q1 == IF r.ret = RTrue THEN remove(q, d) ELSE q
        l == list_domains(r.c, o3)
        e == [Ev("verify", d, ROk) EXCEPT
                 !.txs = r.txs, !.expected = txt_token,
                 !.checked = <<[domain |-> d, a_ok |-> a_ok, txt_ok |-> txt_ok]>>,
                 !.promoted = IF r.ret = RTrue THEN <<d>> ELSE <<>>]
    IN  [c |-> r.c, q |-> q1,
         e |-> IF r.ret \in Exceptions THEN [e EXCEPT !.ret = r.ret]
               ELSE IF ~l.ok THEN [e EXCEPT !.ret = l.ret]
               ELSE [e EXCEPT !.queue_status =
                        IF d \in l.val THEN "verified" ELSE get_status(q1, d)]]

VerifyFinish(i) ==
    /\ calls[i].pc = "check"
    /\ \E ans \in {x \in DnsAnswers : x.txt => calls[i].tok # 0} :
       \E s \in IF ans.a /\ ans.txt /\ ~calls[i].av /\ is_pending(queue, calls[i].dom)
                THEN TxScenarios ELSE {DefaultScen} :
       \E o3 \in IF s.load = ConnError \/ s.rollback = ConnError \/ s.save = ConnError
                 THEN {Ok2xx} ELSE ListOutcomes :
          LET r == verify_finish(Cur, queue, calls[i],
                                 [x \in {calls[i].dom} |-> ans], s, o3)
          IN  Commit(r.c, r.q, tokens, [calls EXCEPT ![i] = IdleCall],
                     [r.e EXCEPT !.call = i])

----------------------------------------------------------------------------

(* The classes on their own: each public method of CaddyAPIConfigurator    *)
(* and of DomainQueue called with any argument, in any state it can leave. *)

Docs == UNION {[S -> Upstreams] : S \in SUBSET Domains}

CfgAddDomain ==
    \E d \in Domains, u \in Upstreams, o1 \in HttpOutcomes :
    \E o2 \in IF o1 = HttpError THEN HttpOutcomes ELSE {Ok2xx} :
        LET r == add_domain(Cur, d, u, o1, o2) IN
        Commit(r.c, queue, tokens, calls,
               [Ev("add_domain", d, r.ret) EXCEPT
                   !.txs = <<Tx("add", d, u, o1, o2, r.ret)>>])

CfgDeleteDomain ==
    \E d \in Domains, o1 \in HttpOutcomes :
    \E o2 \in IF o1 = HttpError THEN HttpOutcomes ELSE {Ok2xx} :
        LET r == delete_domain(Cur, d, o1, o2) IN
        Commit(r.c, queue, tokens, calls,
               [Ev("delete_domain", d, r.ret) EXCEPT
                   !.txs = <<Tx("delete", d, NoneVal, o1, o2, r.ret)>>])

CfgLoadNewConfig ==
    \E doc \in Docs, o \in HttpOutcomes :
        LET r == load_new_config(Cur, doc, o) IN
        Commit(r.c, queue, tokens, calls,
               [Ev("load_new_config", NoneVal, r.ret) EXCEPT
                   !.doc = doc, !.txs = <<Tx("load", NoneVal, NoneVal, o, o, r.ret)>>])

CfgSaveConfig ==
    \E o \in HttpOutcomes :
        LET r == save_config(Cur, o) IN
        Commit(r.c, queue, tokens, calls,
               [Ev("save_config", NoneVal, r.ret) EXCEPT
                   !.txs = <<Tx("save", NoneVal, NoneVal, o, o, r.ret)>>])

NextConfigurator ==
    \/ CfgAddDomain
    \/ CfgDeleteDomain
    \/ CfgLoadNewConfig
    \/ CfgSaveConfig

SpecConfigurator == Init /\ [][NextConfigurator]_vars

QueueAdd ==
    \E d \in Domains, u \in Upstreams :
        Commit(Cur, add(queue, d, u, now), tokens, calls,
               [Ev("add", d, RNone) EXCEPT !.up = u])

QueueRemove ==
    \E d \in Domains :
        Commit(Cur, remove(queue, d), tokens, calls, Ev("remove", d, RNone))

QueueMarkFailed ==
    \E d \in Domains :
        Commit(Cur, mark_failed(queue, d), tokens, calls, Ev("mark_failed", d, RNone))

QueueMarkPending ==
    \E d \in Domains :
        Commit(Cur, mark_pending(queue, d, now), tokens, calls,
               Ev("mark_pending", d, RNone))

QueueCleanupExpired ==
    LET r == cleanup_expired(queue, now) IN
    Commit(Cur, r.q, tokens, calls,
           [Ev("cleanup_expired", NoneVal, RNone) EXCEPT !.failed = r.failed])

NextQueue ==
    \/ Advance
    \/ QueueAdd
    \/ QueueRemove
    \/ QueueMarkFailed
    \/ QueueMarkPending
    \/ QueueCleanupExpired

SpecQueue == Init /\ [][NextQueue]_vars

----------------------------------------------------------------------------
(* The DomainQueue and its file: every mutator with its own _save, and a   *)
(* restart of the process, which builds the queue anew from the file       *)

CommitQueue(r, e) ==
    /\ queue' = r.q
    /\ pendingFile' = r.f
    /\ ev' = e
    /\ UNCHANGED <<live, config, snapshot, tokens, now, serverIp, calls, loops,
                   hist>>

DurableAdd ==
    \E d \in Domains, u \in Upstreams :
        CommitQueue(add_and_save(queue, pendingFile, d, u, now),
                    [Ev("add", d, RNone) EXCEPT !.up = u])

DurableRemove ==
    \E d \in Domains :
        CommitQueue(remove_and_save(queue, pendingFile, d),
                    Ev("remove", d, RNone))

DurableMarkFailed ==
    \E d \in Domains :
        CommitQueue(mark_failed_and_save(queue, pendingFile, d),
                    Ev("mark_failed", d, RNone))

DurableMarkPending ==
    \E d \in Domains :
        CommitQueue(mark_pending_and_save(queue, pendingFile, d, now),
                    Ev("mark_pending", d, RNone))

DurableCleanupExpired ==
    CommitQueue(cleanup_expired_and_save(queue, pendingFile, now),
                [Ev("cleanup_expired", NoneVal, RNone) EXCEPT
                    !.failed = cleanup_expired(queue, now).failed])

\* DomainQueue.__init__ of the next process: _load
Restart ==
    CommitQueue([q |-> queue_load(pendingFile), f |-> pendingFile],
                Ev("restart", NoneVal, RNone))

NextDurable ==
    \/ Advance
    \/ DurableAdd
    \/ DurableRemove
    \/ DurableMarkFailed
    \/ DurableMarkPending
    \/ DurableCleanupExpired
    \/ Restart

SpecDurable == Init /\ [][NextDurable]_vars

----------------------------------------------------------------------------
(* One verify_domain call and one iteration of the pending loop that runs  *)
(* while the call is suspended at its token-file I/O.  The control plane   *)
(* accepts every request, the resolvers answer the same throughout and no  *)
(* time passes; hist keeps the state before both and their inputs, so that *)
(* the two can be run one after the other from the same state.             *)

OvDomain == "a.example"

\* what the queue may hold for OvDomain at time t: nothing, a pending entry,
\* or a failed one (failed by a sweep: older than MAX_PENDING_SECONDS)
OvQueues(t) ==
    {<<>>}
    \cup {<<Entry(OvDomain, u, a, Pending)>> : u \in Upstreams, a \in 0..t}
    \cup {<<Entry(OvDomain, u, a, Failed)>> :
            u \in Upstreams, a \in {x \in 0..t : t - x > MAX_PENDING_SECONDS}}

InitOverlap ==
    /\ now \in 0..MaxTime
    /\ serverIp = TRUE
    /\ queue \in OvQueues(now)
    /\ pendingFile = json_dump(queue)
    /\ live \in IF queue = <<>>
                THEN {EmptyDoc} \cup {[x \in {OvDomain} |-> u] : u \in Upstreams}
                ELSE {EmptyDoc}
    /\ config = live
    /\ snapshot = live
    /\ tokens \in {[x \in {} |-> 0]} \cup {[x \in {OvDomain} |-> k] : k \in Tokens}
    /\ calls = [i \in CallIds |-> IdleCall]
    /\ ev = EvBase
    /\ loops = LoopsStarted
    /\ \E dns \in DnsAnswers, uarg \in UpstreamArgs, fresh \in Tokens :
          hist = [started |-> FALSE, ticked |-> FALSE, done |-> FALSE,
                  pre |-> [c |-> Cur, q |-> queue, tk |-> tokens],
                  dns |-> dns, uarg |-> uarg, fresh |-> fresh]

CommitHist(c, q, tk, cl, e, h) ==
    /\ Effect(c, q, tk, cl, e)
    /\ hist' = h
    /\ UNCHANGED loops

OvDns(dns) == [x \in Domains |-> dns]
OvScen == [x \in Domains |-> DefaultScen]

OvVerifyStart ==
    /\ calls[1].pc = "idle"
    /\ ~hist.started
    /\ LET r == verify_start(Cur, queue, tokens, now, OvDomain, hist.uarg,
                             Ok2xx, Ok2xx, hist.fresh) IN
       CommitHist(Cur, r.q, tokens, [calls EXCEPT ![1] = r.call],
                  [Ev("verify_start", OvDomain, r.ret) EXCEPT
                      !.call = 1, !.queue_status = get_status(queue, OvDomain)],
                  [hist EXCEPT !.started = TRUE])

OvTick ==
    /\ calls[1].pc \in {"read", "open_w", "write", "check"}
    /\ ~hist.ticked
    /\ LET st == pending_verification(Cur, queue, tokens, now, OvDns(hist.dns),
                                      OvScen) IN
       CommitHist(st.c, st.q, tokens, calls,
                  [Ev("tick", NoneVal, st.ret) EXCEPT
                      !.failed = st.failed, !.txs = st.txs,
                      !.promoted = st.promoted, !.checked = st.checked],
                  [hist EXCEPT !.ticked = TRUE])

OvVerifyFinish ==
    /\ calls[1].pc = "check"
    /\ LET r == verify_finish(Cur, queue, calls[1], OvDns(hist.dns), DefaultScen,
                              Ok2xx) IN
       CommitHist(r.c, r.q, tokens, [calls EXCEPT ![1] = IdleCall],
                  [r.e EXCEPT !.call = 1], [hist EXCEPT !.done = TRUE])

NextOverlap ==
    \/ OvVerifyStart
    \/ VerifyRead(1)
    \/ VerifyOpenWrite(1)
    \/ VerifyWrite(1)
    \/ OvTick
    \/ OvVerifyFinish

SpecOverlap == InitOverlap /\ [][NextOverlap]_vars

\* verify_domain run from its first line to its response with nothing in
\* between: returns [c, q, tk]
verify_domain(c, q, tk, t, d, uarg, fresh, dns) ==
    LET st == verify_start(c, q, tk, t, d, uarg, Ok2xx, Ok2xx, fresh)
        exists == d \in DOMAIN tk
        tk1 == IF exists THEN tk
               ELSE [x \in (DOMAIN tk) \cup {d} |-> IF x = d THEN fresh ELSE tk[x]]
        call == [st.call EXCEPT !.pc = "check", !.tok = tk1[d]]
        fin == verify_finish(c, st.q, call, OvDns(dns), DefaultScen, Ok2xx)
    IN  IF st.ret # "awaiting" THEN [c |-> c, q |-> st.q, tk |-> tk]
        ELSE [c |-> fin.c, q |-> fin.q, tk |-> tk1]

\* what the claim compares: is the domain live, and its status in the queue
OvOutcome(c, q) ==
    [live |-> OvDomain \in tmpl_list_domains(c.live),
     status |-> get_status(q, OvDomain)]

SerialVerifyThenTick ==
    LET p == hist.pre
        v == verify_domain(p.c, p.q, p.tk, now, OvDomain, hist.uarg, hist.fresh,
                           hist.dns)
        k == pending_verification(v.c, v.q, v.tk, now, OvDns(hist.dns), OvScen)
    IN  OvOutcome(k.c, k.q)

SerialTickThenVerify ==
    LET p == hist.pre
        k == pending_verification(p.c, p.q, p.tk, now, OvDns(hist.dns), OvScen)
        v == verify_domain(k.c, k.q, p.tk, now, OvDomain, hist.uarg, hist.fresh,
                           hist.dns)
    IN  OvOutcome(v.c, v.q)

----------------------------------------------------------------------------
(* Two verify_domain calls in flight for one domain, their token-file I/O  *)
(* interleaved in every way, and further calls after them.  Nothing        *)
(* deletes the token file.  hist keeps the token of the call whose open    *)
(* created the file (first; 0 before) and the tokens generated so far.     *)

TkCalls == {1, 2}

InitTokens ==
    /\ live = https_template
    /\ config = https_template
    /\ snapshot = https_template
    /\ queue = <<>>
    /\ pendingFile = <<>>
    /\ tokens = [d \in {} |-> 0]
    /\ now = 0
    /\ serverIp = TRUE
    /\ calls = [i \in TkCalls |-> IdleCall]
    /\ ev = EvBase
    /\ loops = LoopsStarted
    /\ hist = [first |-> 0, gen |-> {}]

TkVerifyStart(i) ==
    \E d \in Tenants, uarg \in UpstreamArgs :
    \E fresh \in IF d \notin DOMAIN tokens THEN Tokens ELSE {0} :
        /\ calls[i].pc = "idle"
        /\ LET r == verify_start(Cur, queue, tokens, now, d, uarg, Ok2xx, Ok2xx,
                                 fresh) IN
           CommitHist(Cur, r.q, tokens, [calls EXCEPT ![i] = r.call],
                      [Ev("verify_start", d, r.ret) EXCEPT
                          !.call = i, !.queue_status = get_status(queue, d)],
                      IF r.call.pc = "open_w"
                      THEN [hist EXCEPT !.gen = @ \cup {r.call.tok}]
                      ELSE hist)

TkVerifyOpenWrite(i) ==
    /\ calls[i].pc = "open_w"
    /\ LET d == calls[i].dom IN
       CommitHist(Cur, queue,
                  [x \in (DOMAIN tokens) \cup {d} |-> IF x = d THEN 0 ELSE tokens[x]],
                  [calls EXCEPT ![i].pc = "write"],
                  [Ev("verify_io", d, "awaiting") EXCEPT !.call = i],
                  IF d \notin DOMAIN tokens
                  THEN [hist EXCEPT !.first = calls[i].tok]
                  ELSE hist)

NextTokens ==
    \/ \E i \in TkCalls : TkVerifyStart(i)
    \/ \E i \in TkCalls : VerifyRead(i)
    \/ \E i \in TkCalls : TkVerifyOpenWrite(i)
    \/ \E i \in TkCalls : VerifyWrite(i)
    \/ \E i \in TkCalls : VerifyFinish(i)

SpecTokens == InitTokens /\ [][NextTokens]_vars

----------------------------------------------------------------------------
(* The poll over several waiting tenants.  Two tenants have each called    *)
(* verify_domain before their DNS records were in place: both are pending   *)
(* in the queue, in either order, with their token files written.  The      *)
(* pending-verification loop is a task of the event loop that wakes after   *)
(* every sleep: its iteration is weakly fair.                               *)

PollQueues ==
    {<<Entry(d1, DEFAULT_SAAS_UPSTREAM, 0, Pending),
       Entry(d2, DEFAULT_SAAS_UPSTREAM, 0, Pending)>> :
        <<d1, d2>> \in {p \in Domains \X Domains : p[1] # p[2]}}

InitPoll ==
    /\ live = https_template
    /\ config = https_template
    /\ snapshot = https_template
    /\ queue \in PollQueues
    /\ pendingFile = json_dump(queue)
    /\ tokens = [d \in Domains |-> 1]
    /\ now = 0
    /\ serverIp = TRUE
    /\ calls = [i \in CallIds |-> IdleCall]
    /\ ev = EvBase
    /\ loops = LoopsStarted
    /\ hist = NoHist

NextPoll ==
    \/ PendingVerificationTick
    \/ Advance

SpecPoll == InitPoll /\ [][NextPoll]_vars /\ WF_vars(PendingVerificationTick)

----------------------------------------------------------------------------
(* Clients that also send a name validators.domain() refuses               *)

Names == Tenants \cup {BadName}

NextNames ==
    \/ RequestDomain(Names)
    \/ \E i \in CallIds : VerifyStart(Names, i)
    \/ \E i \in CallIds : VerifyRead(i)
    \/ \E i \in CallIds : VerifyOpenWrite(i)
    \/ \E i \in CallIds : VerifyWrite(i)
    \/ \E i \in CallIds : VerifyFinish(i)

SpecNames == Init /\ [][NextNames]_vars

----------------------------------------------------------------------------
(* Clients that spell one hostname in two ways                             *)

Spellings == {"a.example", UpperName}

NextSpellings ==
    \/ RequestDomain(Spellings)
    \/ \E i \in CallIds : VerifyStart(Spellings, i)
    \/ \E i \in CallIds : VerifyRead(i)
    \/ \E i \in CallIds : VerifyOpenWrite(i)
    \/ \E i \in CallIds : VerifyWrite(i)
    \/ \E i \in CallIds : VerifyFinish(i)

SpecSpellings == Init /\ [][NextSpellings]_vars

----------------------------------------------------------------------------
(* A process that could not determine its public IP at startup             *)
(* (get_server_ip() returned None).  An earlier run may have left a live   *)
(* route, queue entries and a token file behind.                           *)

InitNoIp ==
    /\ now \in 0..MaxTime
    /\ serverIp = FALSE
    /\ queue \in OvQueues(now)
    /\ pendingFile = json_dump(queue)
    /\ live \in IF queue = <<>>
                THEN {EmptyDoc} \cup {[x \in {OvDomain} |-> u] : u \in Upstreams}
                ELSE {EmptyDoc}
    /\ config = live
    /\ snapshot = live
    /\ tokens \in {[x \in {} |-> 0]} \cup {[x \in {OvDomain} |-> k] : k \in Tokens}
    /\ calls = [i \in CallIds |-> IdleCall]
    /\ ev = EvBase
    /\ loops = LoopsStarted
    /\ hist = NoHist

NextNoIp ==
    \/ Advance
    \/ RequestDomain(Tenants)
    \/ PendingVerificationTick
    \/ DomainAuditTick
    \/ \E i \in CallIds : VerifyStart(Tenants, i)

SpecNoIp == InitNoIp /\ [][NextNoIp]_vars

----------------------------------------------------------------------------
(* The running service: the handlers and the two loops on one event loop   *)

Next ==
    \/ Advance
    \/ RequestDomain(Tenants)
    \/ RemoveDomains(Tenants)
    \/ PendingVerificationTick
    \/ DomainAuditTick
    \/ \E i \in CallIds : VerifyStart(Tenants, i)
    \/ \E i \in CallIds : VerifyRead(i)
    \/ \E i \in CallIds : VerifyOpenWrite(i)
    \/ \E i \in CallIds : VerifyWrite(i)
    \/ \E i \in CallIds : VerifyFinish(i)

Spec == Init /\ [][Next]_vars

----------------------------------------------------------------------------
(* Properties *)

\* C1: at every moment no domain is both in the live configuration (what
\* the control plane's list_domains() reports) and in the queue.
C1_LiveAndQueuedDisjoint ==
    \A d \in Domains : ~(d \in tmpl_list_domains(live) /\ d \in QDomains(queue))

\* C2: an add_domain or delete_domain whose load of the proposed document
\* the control plane rejects returns False, and list_domains() answers
\* afterwards what it answered before.
C2_RejectedTransactionReturnsFalse ==
    [][(ev'.op \in {"add_domain", "delete_domain"} /\ ev'.txs[1].first = HttpError)
        => /\ ev'.ret = RFalse
           /\ tmpl_list_domains(live') = tmpl_list_domains(live)]_vars

\* C3: when an add_domain or delete_domain is over, however its loads were
\* answered, the cached config equals the live configuration, and the live
\* configuration is the one before the call or that one with exactly the
\* one route added or deleted.
C3_TransactionLeavesCacheEqualLive ==
    [][ev'.op \in {"add_domain", "delete_domain"}
        => LET tx == ev'.txs[1]
               rest == (DOMAIN live) \ {tx.dom}
               applied ==
                   /\ \A x \in rest : x \in DOMAIN live' /\ live'[x] = live[x]
                   /\ IF tx.kind = "add"
                      THEN DOMAIN live' = rest \cup {tx.dom} /\ live'[tx.dom] = tx.up
                      ELSE DOMAIN live' = rest /\ tx.dom \in DOMAIN live
           IN  /\ config' = live'
               /\ live' = live \/ applied]_vars

\* C3 happens: an add_domain was rejected and the load of the old document
\* was rejected too, with routes in place
C3_Witness ==
    /\ ev.op = "add_domain"
    /\ ev.txs[1].first = HttpError
    /\ ev.txs[1].second = HttpError
    /\ live # EmptyDoc

\* C4: load_new_config returns True exactly when the control plane answers
\* 2xx, and then the document is the cached (and the live) one; on a
\* rejection it returns False and the cached config is what it was.
C4_LoadAdoptsExactlyWhenAccepted ==
    [][ev'.op = "load_new_config"
        => LET o == ev'.txs[1].first IN
           /\ (ev'.ret = RTrue) <=> (o = Ok2xx)
           /\ o = Ok2xx => (config' = ev'.doc /\ live' = ev'.doc)
           /\ o = HttpError => (ev'.ret = RFalse /\ config' = config /\ live' = live)]_vars

\* C4 happens: a document other than the cached one was rejected
C4_Witness ==
    /\ ev.op = "load_new_config"
    /\ ev.txs[1].first = HttpError
    /\ ev.doc # config
    /\ config # EmptyDoc

\* C5: after every promotion, removal or audit sweep that went through (a
\* route was added or deleted and the step returned normally) the snapshot
\* file holds the control plane's current configuration.
C5_SnapshotCurrentAfterCompletedStep ==
    [][(/\ ev'.op \in {"tick", "verify", "remove", "audit"}
        /\ ev'.ret \notin Exceptions
        /\ \E i \in DOMAIN ev'.txs : ev'.txs[i].ret = RTrue)
        => snapshot' = live']_vars

\* C6: a domain is promoted once: the step that makes the control plane
\* accept its route finds it not live yet, and leaves it live and out of
\* the queue.
C6_PromotedOnceAndDequeued ==
    [][\A i \in DOMAIN ev'.txs :
          (ev'.txs[i].kind = "add" /\ ev'.txs[i].ret = RTrue)
          => /\ ev'.txs[i].dom \notin tmpl_list_domains(live)
             /\ ev'.txs[i].dom \in tmpl_list_domains(live')
             /\ ev'.txs[i].dom \notin QDomains(queue')]_vars

\* C7: when an iteration of the pending loop ran while a verify_domain call
\* was suspended at its token I/O, the two leave the domain's live
\* membership and its queue status as running them one after the other, in
\* one of the two orders, from the same state would.
C7_OverlapIsSerializable ==
    (hist.done /\ hist.ticked)
    => OvOutcome(Cur, queue) \in {SerialVerifyThenTick, SerialTickThenVerify}

C10_SweepFailsExactlyExpiredPending ==
    [][ev'.op = "cleanup_expired"
        => LET expired == {i \in DOMAIN queue :
                              /\ queue[i].status = Pending
                              /\ now - queue[i].added_at > MAX_PENDING_SECONDS}
           IN  /\ Len(queue') = Len(queue)
               /\ \A i \in DOMAIN queue :
                     queue'[i] = IF i \in expired
                                 THEN [queue[i] EXCEPT !.status = Failed]
                                 ELSE queue[i]
               /\ {ev'.failed[k] : k \in DOMAIN ev'.failed}
                     = {queue[i].domain : i \in expired}
               /\ Len(ev'.failed) = Cardinality(expired)]_vars

\* C10 happens: of two entries a sweep failed one and left the other, whose
\* age is exactly MAX_PENDING_SECONDS, pending
C10_Witness ==
    /\ ev.op = "cleanup_expired"
    /\ Len(ev.failed) = 1
    /\ Len(queue) = 2
    /\ \E i \in DOMAIN queue :
          queue[i].status = Pending /\ now - queue[i].added_at = MAX_PENDING_SECONDS

\* C11: add of a domain not in the queue appends it with status pending,
\* added_at the current time and the given upstream; add of a domain already
\* in the queue, pending or failed, with any upstream, changes nothing.
C11_AddInsertsOnceOnly ==
    [][ev'.op = "add"
        => IF ev'.dom \in QDomains(queue)
           THEN queue' = queue
           ELSE queue' = Append(queue, [domain |-> ev'.dom, upstream |-> ev'.up,
                                        added_at |-> now, status |-> Pending])]_vars

\* C11 happens: add was called, with another upstream and at a later time,
\* for a domain whose entry is failed
C11_Witness ==
    /\ ev.op = "add"
    /\ is_failed(queue, ev.dom)
    /\ QGet(queue, ev.dom).upstream # ev.up
    /\ QGet(queue, ev.dom).added_at < now

\* C12: while nothing deletes the token file of a domain, every response of
\* verify_domain carries as the expected TXT value the token of the call
\* that created the file.
C12_EveryCallReportsFirstToken ==
    (ev.op = "verify" /\ ev.ret = ROk) => ev.expected = hist.first

\* C13: verify_domain calls running at once while no token file exists do
\* not generate two different tokens, and what each reports is the value
\* the file holds.
C13_OneTokenUnderConcurrency ==
    /\ Cardinality(hist.gen) <= 1
    /\ (ev.op = "verify" /\ ev.ret = ROk) => ev.expected = tokens[ev.dom]

\* C14 as stated: when remove_domains has returned OK the domain is in
\* neither the queue nor the live configuration and has no token file; for
\* a domain that is nowhere (never tracked, or removed before) the call
\* returns OK and changes nothing.
C14_RemoveUntrackedAlwaysOk ==
    [][ev'.op = "remove"
        => LET d == ev'.dom IN
           /\ ev'.ret = ROk
              => /\ d \notin QDomains(queue')
                 /\ d \notin tmpl_list_domains(live')
                 /\ d \notin DOMAIN tokens'
           /\ (d \notin QDomains(queue) /\ d \notin tmpl_list_domains(live)
                 /\ d \notin DOMAIN tokens)
              => /\ ev'.ret = ROk
                 /\ UNCHANGED <<live, config, snapshot, queue, pendingFile,
                                tokens>>]_vars

\* C14 amended: as above, but for a domain that is nowhere the call returns
\* OK only if list_domains() got the configuration; if not it fails
\* (TypeError on None), and changes nothing either way.
C14_RemoveLeavesNothing ==
    [][ev'.op = "remove"
        => LET d == ev'.dom IN
           /\ ev'.ret = ROk
              => /\ d \notin QDomains(queue')
                 /\ d \notin tmpl_list_domains(live')
                 /\ d \notin DOMAIN tokens'
           /\ (d \notin QDomains(queue) /\ d \notin tmpl_list_domains(live)
                 /\ d \notin DOMAIN tokens)
              => /\ ev'.ret \in {ROk, TypeError}
                 /\ UNCHANGED <<live, config, snapshot, queue, pendingFile,
                                tokens>>]_vars

\* C14 happens: remove_domains has returned OK for a domain that was live
\* and had its token file
C14_Witness ==
    /\ ev.op = "remove"
    /\ ev.ret = ROk
    /\ ev.txs # <<>>
    /\ ev.txs[1].ret = RTrue
    /\ ev.dom \notin tmpl_list_domains(live)
    /\ ev.dom \notin DOMAIN tokens

\* C15: when an audit sweep has completed with the server IP known, every
\* domain that was live and whose A records lack the server IP is neither
\* live nor queued, and every live domain whose A records include it is
\* still live; the sweep looked at exactly the live domains.
C15_AuditRemovesExactlyStrayDomains ==
    [][(ev'.op = "audit" /\ serverIp /\ ev'.ret \notin Exceptions)
        => /\ {ev'.checked[i].domain : i \in DOMAIN ev'.checked}
                = tmpl_list_domains(live)
           /\ \A i \in DOMAIN ev'.checked :
                 LET d == ev'.checked[i].domain IN
                 IF ev'.checked[i].a_ok
                 THEN d \in tmpl_list_domains(live')
                 ELSE /\ d \notin tmpl_list_domains(live')
                      /\ d \notin QDomains(queue')]_vars

\* C16: after an iteration of either loop that raised (the control plane
\* unreachable, a conflict on promotion, a failed config fetch), the loop is
\* still running: being in its `while True` is all its next iteration waits
\* for besides the sleep.
C16_LoopsSurviveExceptions ==
    /\ (ev.op = "tick" /\ ev.ret \in Exceptions) => loops.pending = Running
    /\ (ev.op = "audit" /\ ev.ret \in Exceptions) => loops.audit = Running
    /\ loops \in [{"pending", "audit"} -> {Running}]

\* C16 happens: a promotion in the pending-verification loop has raised the
\* conflict, and the loop runs on
C16_Witness ==
    /\ ev.op = "tick"
    /\ ev.ret = DomainAlreadyExists
    /\ loops.pending = Running

\* the last step was an iteration of the pending-verification loop that
\* looked up the A and TXT records of d
PollChecked(d) ==
    /\ ev.op = "tick"
    /\ \E i \in DOMAIN ev.checked : ev.checked[i].domain = d

\* C17: with the server IP known and the loop's iterations fairly scheduled,
\* a domain that stays in the queue with status pending has its records
\* checked by the loop again and again, whatever its place in the queue and
\* whatever happens to the promotion of another domain in the same tick.
C17_EveryPendingIsChecked ==
    \A d \in Domains :
        (<>[]is_pending(queue, d)) => ([]<>PollChecked(d))

\* C18: add_domain or verify_domain called with a malformed name (never
\* tracked) ends with the validation error, HTTP 400, and leaves the queue,
\* its file, the live configuration, the cache, the snapshot and the token
\* files as they were.
C18_MalformedNameGetsValidationError ==
    [][(ev'.op \in {"request", "verify_start"} /\ ev'.dom = BadName)
        => /\ ev'.ret = Http400
           /\ UNCHANGED <<live, config, snapshot, queue, pendingFile,
                          tokens>>]_vars

\* C18 amended: the call is rejected and changes nothing.  add_domain
\* answers 400.  verify_domain answers 400 once it gets to the validation:
\* before it, an unknown server IP ends the call with 500, and a failed
\* fetch of the live configuration with the exception of that fetch.
C18_MalformedNameRejectedUnchanged ==
    [][(ev'.op \in {"request", "verify_start"} /\ ev'.dom = BadName)
        => /\ UNCHANGED <<live, config, snapshot, queue, pendingFile,
                          tokens>>
           /\ \A i \in CallIds : calls'[i] = calls[i] \/ calls'[i] = IdleCall
           /\ ev'.op = "request" => ev'.ret = Http400
           /\ ev'.op = "verify_start"
                 => \/ ev'.ret = Http400
                    \/ ~serverIp /\ ev'.ret = Http500
                    \/ serverIp /\ ev'.ret \in {TypeError, ConnError}]_vars

\* C18 happens: verify_domain has refused a malformed name with 400 while a
\* well-formed domain is tracked
C18_Witness ==
    /\ ev.op = "verify_start"
    /\ ev.dom = BadName
    /\ ev.ret = Http400
    /\ queue # <<>>

\* C19: when the add_domain of a promotion raises because the domain is
\* routed to another upstream, the live configuration stays as it is and the
\* client gets to see the conflict: verify_domain ends with it, and after a
\* tick of the loop the status clients read for the domain is no longer the
\* plain "pending" of a domain that is not yet verified.
C19_ConflictReachesClient ==
    [][\A k \in DOMAIN ev'.txs :
          (ev'.txs[k].kind = "add" /\ ev'.txs[k].ret = DomainAlreadyExists)
          => /\ live' = live
             /\ ev'.op = "verify" => ev'.ret = DomainAlreadyExists
             /\ ev'.op = "tick"
                   => get_status(queue', ev'.txs[k].dom) # Pending]_vars

C22_OneEntryPerHostname ==
    /\ \A i, j \in DOMAIN queue :
          lower(queue[i].domain) = lower(queue[j].domain) => i = j
    /\ \A d \in tmpl_list_domains(live), e \in QDomains(queue) :
          lower(d) = lower(e) => d = e

\* C23: a handler step of add_domain, remove_domains or verify_domain in
\* which GET /config/ was answered non-2xx (list_domains() returned None and
\* the membership test on it raised TypeError: the failure the call reports)
\* leaves the queue, its file and the token files as they were.
C23_FailedFetchChangesNothing ==
    [][(ev'.op \in {"request", "remove", "verify_start", "verify"}
          /\ ev'.ret = TypeError)
        => UNCHANGED <<queue, pendingFile, tokens>>]_vars

\* C24: a domain whose queue entry is failed is left alone by the
\* pending-verification loop: a tick does not check it, does not promote it
\* and leaves its entry as it is; and no step at all makes a domain live
\* while its entry is failed, so it is live only after verify_domain has
\* reset it to pending.
C24_FailedIsNotPolled ==
    [][\A d \in Domains :
          is_failed(queue, d)
          => /\ (d \in tmpl_list_domains(live') => d \in tmpl_list_domains(live))
             /\ ev'.op = "tick"
                   => /\ \A i \in DOMAIN ev'.checked : ev'.checked[i].domain # d
                      /\ \A i \in DOMAIN ev'.promoted : ev'.promoted[i] # d
                      /\ d \in QDomains(queue')
                      /\ QGet(queue', d) = QGet(queue, d)]_vars

\* C24 happens: a tick with the server IP known has run over a queue that
\* held a failed entry before it
C24_Witness ==
    /\ ev.op = "tick"
    /\ serverIp
    /\ ev.failed = <<>>
    /\ \E d \in Domains : is_failed(queue, d)

\* C25: whenever a tick or verify_domain promotes a domain (its add_domain
\* was accepted), the upstream it is routed to is the upstream of the
\* domain's queue entry.
C25_PromotedToQueuedUpstream ==
    [][\A k \in DOMAIN ev'.txs :
          LET tx == ev'.txs[k] IN
          (ev'.op \in {"tick", "verify"} /\ tx.kind = "add" /\ tx.ret = RTrue)
          => /\ tx.dom \in QDomains(queue)
             /\ tx.up = QGet(queue, tx.dom).upstream
             /\ live'[tx.dom] = QGet(queue, tx.dom).upstream]_vars

\* C26: the list an audit sweep returns holds exactly the domains whose
\* delete_domain the control plane accepted in this sweep and that are no
\* longer live.
C26_AuditReportsWhatItRemoved ==
    [][(ev'.op = "audit" /\ ev'.ret \notin Exceptions)
        => {ev'.removed[i] : i \in DOMAIN ev'.removed}
              = {ev'.txs[k].dom : k \in
                    {j \in DOMAIN ev'.txs :
                        /\ ev'.txs[j].kind = "delete"
                        /\ ev'.txs[j].ret = RTrue
                        /\ ev'.txs[j].dom \notin tmpl_list_domains(live')}}]_vars

\* C27: while the server IP is unknown, a tick of the pending-verification
\* loop fails the pending entries whose time has run out and does nothing
\* else (no lookup, no promotion, same live configuration), an audit sweep
\* looks at nothing and removes nothing, and verify_domain ends with 500 and
\* leaves the queue, the live configuration and the token files as they were.
C27_NothingMovesWithoutServerIp ==
    [][~serverIp
        => /\ ev'.op = "tick"
                => /\ ev'.promoted = <<>> /\ ev'.checked = <<>> /\ ev'.txs = <<>>
                   /\ UNCHANGED <<live, config, snapshot, tokens>>
                   /\ Len(queue') = Len(queue)
                   /\ \A i \in DOMAIN queue :
                         queue'[i] =
                            IF /\ queue[i].status = Pending
                               /\ now - queue[i].added_at > MAX_PENDING_SECONDS
                            THEN [queue[i] EXCEPT !.status = Failed]
                            ELSE queue[i]
           /\ ev'.op = "audit"
                => /\ ev'.removed = <<>> /\ ev'.checked = <<>> /\ ev'.txs = <<>>
                   /\ UNCHANGED <<live, config, snapshot, queue, pendingFile,
                                  tokens>>
           /\ ev'.op = "verify_start"
                => /\ ev'.ret = Http500
                   /\ UNCHANGED <<live, config, snapshot, queue, pendingFile,
                                  tokens, calls>>]_vars

\* C27 happens: without the server IP a tick has failed an expired entry
C27_Witness ==
    /\ ~serverIp
    /\ ev.op = "tick"
    /\ ev.failed # <<>>

\* C28: whenever no verify_domain call is suspended, every domain that has
\* a token file is in the queue or live.
C28_NoTokenWithoutDomain ==
    (\A i \in CallIds : calls[i].pc = "idle")
    => \A d \in DOMAIN tokens :
          d \in QDomains(queue) \/ d \in tmpl_list_domains(live)

====
